---- MODULE Spec2Model ----
(***************************************************************************)
(* A model of pyaldata/data_cleaning.py: the four table transforms         *)
(* backshift_idx_fields, clean_0d_array_fields, clean_0d_spike_fields and  *)
(* clean_integer_fields, each wrapped by the utils.copy_td decorator.      *)
(*                                                                         *)
(* A table (pandas DataFrame) is a record [names, n, col]: the ordered     *)
(* column names, the number of rows and, per column, the sequence of its   *)
(* cells.  A column name is a sequence of one-character strings so that    *)
(* startswith / endswith / in / lower are computed, not assumed.           *)
(*                                                                         *)
(* A cell is [k, dt, shape, data]: k is "scalar" or "ndarray", dt its      *)
(* element type, shape the array shape (<<>> for a scalar and for a 0-d    *)
(* array) and data its elements in C order.  An element is [o, i, h] and   *)
(* stands for the number o * 2^31 + i + h / 2, h \in {0, 1}: i is the      *)
(* floor, h says whether a fractional part of one half follows, and o = 1  *)
(* places the value above the signed 32-bit range.  A string element is    *)
(* [o |-> 0, i |-> code, h |-> 0] under dt = "str".                        *)
(***************************************************************************)
EXTENDS Integers, Sequences, FiniteSets, TLC

VARIABLES store, cur, orig, last, raised, printed, build, shifts

vars == <<store, cur, orig, last, raised, printed, build, shifts>>

\* Total number of cells (rows * columns), and of rows, and of columns, of a loaded table.
MaxCells == 3

\* How many times the caller rebases the indices of one table.
MaxShifts == 2

----------------------------------------------------------------------------
(* Strings *)

Upper == <<"A","B","C","D","E","F","G","H","I","J","K","L","M",
           "N","O","P","Q","R","S","T","U","V","W","X","Y","Z">>
Lowers == <<"a","b","c","d","e","f","g","h","i","j","k","l","m",
            "n","o","p","q","r","s","t","u","v","w","x","y","z">>

\* str.lower() on one character
LowerChar(ch) ==
    IF \E k \in 1..Len(Upper) : Upper[k] = ch
    THEN Lowers[CHOOSE k \in 1..Len(Upper) : Upper[k] = ch]
    ELSE ch

\* str.lower()
Lower(s) == [k \in 1..Len(s) |-> LowerChar(s[k])]

\* str.startswith(p)
StartsWith(s, p) == Len(s) >= Len(p) /\ SubSeq(s, 1, Len(p)) = p

\* str.endswith(p)
EndsWith(s, p) == Len(s) >= Len(p) /\ SubSeq(s, Len(s) - Len(p) + 1, Len(s)) = p

\* p in s
Contains(s, p) == \E k \in 1..(Len(s) - Len(p) + 1) : SubSeq(s, k, k + Len(p) - 1) = p

IdxPrefix == <<"i","d","x">>
SpikesSuffix == <<"_","s","p","i","k","e","s">>
LabelWord == <<"l","a","b","e","l">>

----------------------------------------------------------------------------
(* Numbers and cells *)

IntMax == 2147483647
IntMin == -2147483647 - 1

Elem(i) == [o |-> 0, i |-> i, h |-> 0]
HalfAbove(i) == [o |-> 0, i |-> i, h |-> 1]
TwoTo31 == [o |-> 1, i |-> 0, h |-> 0]

Scalar(dt, e) == [k |-> "scalar", dt |-> dt, shape |-> <<>>, data |-> <<e>>]
NdArray(dt, shape, data) == [k |-> "ndarray", dt |-> dt, shape |-> shape, data |-> data]

\* isinstance(x, np.ndarray)
IsArray(c) == c.k = "ndarray"
\* isinstance(x, str)
IsStr(c) == c.k = "scalar" /\ c.dt = "str"
\* arr.ndim
Ndim(c) == Len(c.shape)

\* The cells a loader can hand over.
I1 == Scalar("int", Elem(1))
F2 == Scalar("float", Elem(2))
F2h == Scalar("float", HalfAbove(2))
F100k == Scalar("float", Elem(100000))
F50kh == Scalar("float", HalfAbove(50000))
FOver == Scalar("float", TwoTo31)
Sa == Scalar("str", Elem(97))
A0 == NdArray("float64", <<>>, <<Elem(7)>>)
A1 == NdArray("float64", <<2>>, <<Elem(1), Elem(2)>>)
A2 == NdArray("float64", <<2, 2>>, <<Elem(1), Elem(2), Elem(3), Elem(4)>>)
A3 == NdArray("float64", <<1, 1, 2>>, <<Elem(5), HalfAbove(6)>>)
A0i == NdArray("int32", <<>>, <<Elem(3)>>)
AU == NdArray("uint8", <<2>>, <<Elem(3), Elem(7)>>)
AUz == NdArray("uint8", <<1>>, <<Elem(0)>>)
AS == NdArray("str", <<1>>, <<Elem(97)>>)

\* Column names of the loaded tables, in column order.
NameCatalog == << <<"i","d","x","_","t">>,
                  <<"x","i","d","x">>,
                  <<"m","_","s","p","i","k","e","s">>,
                  <<"v","e","l">>,
                  <<"L","a","b","e","l">>,
                  <<"n","m">> >>

\* The cells a loaded column of that name may hold.
CellCatalog == << {I1, AU, AUz},
                  {I1, A0i},
                  {A0, A1, A2, A3},
                  {F100k, F2h, F50kh, FOver},
                  {F2, Sa, AS},
                  {Sa, AS} >>

RECURSIVE SeqOfSet(_)
\* the members of a set of numbers, ascending
SeqOfSet(S) ==
    IF S = {} THEN <<>>
    ELSE LET m == CHOOSE x \in S : \A y \in S : x <= y
         IN <<m>> \o SeqOfSet(S \ {m})

RECURSIVE ColSeqs(_, _)
\* every choice of cells for the columns ks (indices into the catalogs), n rows each
ColSeqs(ks, n) ==
    IF ks = <<>> THEN {<<>>}
    ELSE {<<c>> \o rest : c \in [1..n -> CellCatalog[Head(ks)]], rest \in ColSeqs(Tail(ks), n)}

TablesOf(ks, n) ==
    {[names |-> [j \in 1..Len(ks) |-> NameCatalog[ks[j]]], n |-> n, col |-> cs] :
        cs \in ColSeqs(ks, n)}

\* The tables a loader can hand over: any columns of the catalog, any number of rows.
Tables ==
    UNION {TablesOf(SeqOfSet(p[1]), p[2]) :
             p \in {q \in (SUBSET (1..Len(NameCatalog))) \X (0..MaxCells) :
                       /\ Cardinality(q[1]) <= MaxCells
                       /\ Cardinality(q[1]) * q[2] <= MaxCells}}

\* What a float -> int32 conversion of a value outside the int32 range yields is
\* undefined in C; the builds differ: x86 gives the "integer indefinite" value
\* INT_MIN, a saturating conversion (AArch64) gives INT_MAX.
Builds == {"indefinite", "saturate"}

----------------------------------------------------------------------------
(* pandas *)

NumDts == {"int", "float", "int32"}

\* dtype of a column: that of its cells when they are scalar numbers of one type,
\* else object
ColDtype(col) ==
    IF col # <<>> /\ \A r \in 1..Len(col) :
                       col[r].k = "scalar" /\ col[r].dt \in NumDts /\ col[r].dt = col[1].dt
    THEN col[1].dt
    ELSE "object"

\* for x in df[c]: a numeric column yields Python scalars, an object column the
\* objects it stores
Iter(col) ==
    IF ColDtype(col) = "int32"
    THEN [r \in 1..Len(col) |-> Scalar("int", col[r].data[1])]
    ELSE col

\* df.columns, len(df) and the length of every column
Shape(t) == [names |-> t.names, n |-> t.n, lens |-> [j \in 1..Len(t.col) |-> Len(t.col[j])]]

\* The first column (in column order) among J, or 0
First(J) == IF J = {} THEN 0 ELSE CHOOSE j \in J : \A k \in J : j <= k

\* A loop "for c in fields: df[c] = [...]" over the columns J, where building the
\* list for column j raises when Raises(j): the columns before the first raising
\* one are assigned, the call then ends with the exception.
Assigned(t, J, raisesAt, newcol) ==
    [tab |-> [t EXCEPT !.col = [j \in 1..Len(t.col) |->
                                   IF j \in J /\ (raisesAt = 0 \/ j < raisesAt)
                                   THEN newcol[j] ELSE t.col[j]]],
     raised |-> raisesAt # 0]

----------------------------------------------------------------------------
(* utils.copy_td: the wrapped function receives a copy of the DataFrame it was *)
(* called with.  The store holds two table objects; the copy of the object in  *)
(* slot a is made in the other slot.                                            *)

CopySlot(a) == 1 - a

copy_td(st, a) == [st EXCEPT ![CopySlot(a)] = st[a]]

\* The outcome of a call whose body ran on the object in slot b.
Outcome(st, b, r, out) ==
    [store |-> [st EXCEPT ![b] = r.tab], ret |-> b, raised |-> r.raised, out |-> out]

----------------------------------------------------------------------------
(* backshift_idx_fields *)

\* the smallest and the largest value of a fixed-width integer dtype
DtMin(dt) == CASE dt = "uint8" -> 0 [] dt = "int32" -> IntMin
DtMax(dt) == CASE dt = "uint8" -> 255 [] dt = "int32" -> IntMax

\* x - 1 on one element: exact for Python ints and for floats, modulo 2^w for the
\* elements of a fixed-width integer array or numpy scalar
DecElem(dt, e) ==
    IF dt \in {"uint8", "int32"}
    THEN IF e.i = DtMin(dt) THEN Elem(DtMax(dt)) ELSE Elem(e.i - 1)
    ELSE IF e.o = 1 /\ e.i = 0
         THEN [o |-> 0, i |-> IntMax, h |-> e.h]
         ELSE [e EXCEPT !.i = e.i - 1]

\* idx - 1 raises TypeError on a str and on an array of str
DecRaises(c) == c.dt = "str"

\* idx - 1
Dec(c) == [c EXCEPT !.data = [k \in 1..Len(c.data) |-> DecElem(c.dt, c.data[k])]]

\* Mutant: "idx" in col instead of col.startswith("idx")
IsIdxFieldAnywhere(name) == Contains(name, IdxPrefix)

\* idx_fields = [col for col in trial_data.columns.values if col.startswith("idx")]
IsIdxField(name) == StartsWith(name, IdxPrefix)

\* Mutant: the body returns trial_data[idx_fields], the idx columns alone
BackshiftBodyIdxOnly(t) ==
    LET J == SeqOfSet({j \in 1..Len(t.names) : StartsWith(t.names[j], IdxPrefix)})
    IN [tab |-> [names |-> [k \in 1..Len(J) |-> t.names[J[k]]],
                 n |-> t.n,
                 col |-> [k \in 1..Len(J) |-> [r \in 1..t.n |-> Dec(Iter(t.col[J[k]])[r])]]],
        raised |-> FALSE]

BackshiftBody(t) ==
    LET J == {j \in 1..Len(t.names) : IsIdxField(t.names[j])}
        bad == {j \in J : \E r \in 1..t.n : DecRaises(Iter(t.col[j])[r])}
        newcol == [j \in 1..Len(t.names) |-> [r \in 1..t.n |-> Dec(Iter(t.col[j])[r])]]
    IN Assigned(t, J, First(bad), newcol)

\* @utils.copy_td
backshift_idx_fields(st, a) ==
    LET df == copy_td(st, a)
    IN Outcome(df, CopySlot(a), BackshiftBody(df[CopySlot(a)]), <<>>)

----------------------------------------------------------------------------
(* clean_0d_array_fields *)

\* arr.ndim raises AttributeError on a Python scalar; a numpy scalar has ndim 0
HasNdim(c) == IsArray(c) \/ (c.k = "scalar" /\ c.dt = "int32")

\* Mutant: arr.reshape(-1, 1), a column instead of a row
ReshapeColumn(c) == NdArray(c.dt, <<Len(c.data), 1>>, c.data)

\* arr.reshape(1, -1)
Reshape1Row(c) == NdArray(c.dt, <<1, Len(c.data)>>, c.data)

\* arr if arr.ndim == 2 else arr.reshape(1, -1)
Ensure2d(c) == IF IsArray(c) /\ Ndim(c) = 2 THEN c ELSE Reshape1Row(c)

\* spike_fields = [name for name in df.columns.values if name.endswith("_spikes")]
IsSpikeField(name) == EndsWith(name, SpikesSuffix)

Clean0dArrayBody(t) ==
    LET J == {j \in 1..Len(t.names) : IsSpikeField(t.names[j])}
        bad == {j \in J : \E r \in 1..t.n : ~HasNdim(Iter(t.col[j])[r])}
        newcol == [j \in 1..Len(t.names) |-> [r \in 1..t.n |-> Ensure2d(Iter(t.col[j])[r])]]
    IN Assigned(t, J, First(bad), newcol)

\* Mutant: the decorator is missing, the body runs on the caller's object
clean_0d_array_fields_undecorated(st, a) ==
    Outcome(st, a, Clean0dArrayBody(st[a]), <<>>)

\* @utils.copy_td
clean_0d_array_fields(st, a) ==
    LET df == copy_td(st, a)
    IN Outcome(df, CopySlot(a), Clean0dArrayBody(df[CopySlot(a)]), <<>>)

----------------------------------------------------------------------------
(* clean_0d_spike_fields *)

\* the Python type arr.item() yields
ItemType(dt) == CASE dt = "float64" -> "float" [] dt \in {"int32", "uint8"} -> "int"
                  [] dt = "str" -> "str"

\* arr.item()
Item(c) == Scalar(ItemType(c.dt), c.data[1])

\* all(isinstance(el, np.ndarray) ...) and all([arr.ndim == 0 ...])
AllZeroDim(col) ==
    /\ \A r \in 1..Len(col) : IsArray(col[r])
    /\ \A r \in 1..Len(col) : Ndim(col[r]) = 0

\* Mutant: every 0-d array is unwrapped, cell by cell
Collapse0dPerCell(col) ==
    [r \in 1..Len(col) |->
        IF IsArray(col[r]) /\ Ndim(col[r]) = 0 THEN Item(col[r]) ELSE col[r]]

Collapse0d(col) == IF AllZeroDim(col) THEN [r \in 1..Len(col) |-> Item(col[r])] ELSE col

Clean0dSpikeBody(t) ==
    [tab |-> [t EXCEPT !.col = [j \in 1..Len(t.col) |-> Collapse0d(t.col[j])]],
     raised |-> FALSE]

\* @utils.copy_td
clean_0d_spike_fields(st, a) ==
    LET df == copy_td(st, a)
    IN Outcome(df, CopySlot(a), Clean0dSpikeBody(df[CopySlot(a)]), <<>>)

----------------------------------------------------------------------------
(* clean_integer_fields *)

Abs(x) == IF x < 0 THEN -x ELSE x

\* Mutant: the conversion is off by one
CastElemOffByOne(dt, e, b) ==
    IF e.o = 1 \/ e.i = IntMax THEN Elem(IntMax) ELSE Elem(e.i + 1)

\* np.int32(x) on one element: a float is truncated toward zero; a float outside
\* the int32 range converts to whatever the build's conversion yields
CastElem(dt, e, b) ==
    IF dt \in {"float", "float64"}
    THEN IF e.o = 1
         THEN IF b = "saturate" THEN Elem(IntMax) ELSE Elem(IntMin)
         ELSE IF e.h = 1 /\ e.i < 0 THEN Elem(e.i + 1) ELSE Elem(e.i)
    ELSE Elem(e.i)

\* np.allclose on one pair, |x - y| <= atol + rtol * |y| with numpy's defaults
\* rtol = 1e-05, atol = 1e-08; x is an int32, y = o * 2^31 + i + h / 2.  In halves,
\* with D = |2x - 2y| and V = |2y| integers, the test is 100000 * D <= V + 0.002,
\* that is D <= V \div 100000.  For o = 1, V = 2^32 + 2i + h and
\* 2^32 = 42949 * 100000 + 67296.
AllCloseElem(x, y) ==
    IF y.o = 0
    THEN \/ (y.h = 0 /\ x.i = y.i)
         \/ Abs(2 * x.i - (2 * y.i + y.h)) <= Abs(2 * y.i + y.h) \div 100000
    ELSE /\ x.i >= IntMax - 21475
         /\ 2 * (IntMax - x.i) + 2 + 2 * y.i + y.h
              <= 42949 + ((67296 + 2 * y.i + y.h) \div 100000)

\* np.int32(arr) raises ValueError on a str and on an array of str
CastRaises(c) == c.dt = "str"

\* np.int32(arr): an int32 array of the same shape, or a numpy int32 scalar
Int32(c, b) ==
    [c EXCEPT !.dt = "int32",
              !.data = [k \in 1..Len(c.data) |-> CastElem(c.dt, c.data[k], b)]]

\* np.allclose(int_arr, arr)
AllClose(x, y) == \A k \in 1..Len(y.data) : AllCloseElem(x.data[k], y.data[k])

\* Mutant: a column that is not close to its int32 version counts as failed
CleanIntegerFieldStrict(col, b) ==
    IF col = <<>> \/ (~IsArray(col[1]) /\ ~IsStr(col[1]) /\ ColDtype(col) = "object")
                 \/ (IsArray(col[1]) /\ \E r \in 1..Len(col) : CastRaises(col[r]))
    THEN [col |-> col, failed |-> TRUE]
    ELSE IF IsStr(col[1])
    THEN [col |-> col, failed |-> FALSE]
    ELSE LET ints == [r \in 1..Len(col) |-> Int32(col[r], b)]
         IN IF \A r \in 1..Len(col) : AllClose(ints[r], col[r])
            THEN [col |-> ints, failed |-> FALSE]
            ELSE [col |-> col, failed |-> TRUE]

\* One pass of the loop body for one column: what the column holds afterwards,
\* and whether the try block raised.
CleanIntegerField(col, b) ==
    IF col = <<>>
    THEN \* df[field].values[0]: IndexError
         [col |-> col, failed |-> TRUE]
    ELSE IF IsArray(col[1])
    THEN IF \E r \in 1..Len(col) : CastRaises(col[r])
         THEN [col |-> col, failed |-> TRUE]
         ELSE LET int_arrays == [r \in 1..Len(col) |-> Int32(col[r], b)]
              IN IF \A r \in 1..Len(col) : AllClose(int_arrays[r], col[r])
                 THEN [col |-> int_arrays, failed |-> FALSE]
                 ELSE [col |-> col, failed |-> FALSE]
    ELSE IF ~IsStr(col[1])
    THEN IF ColDtype(col) = "object"
         THEN \* np.int32 of, or np.allclose with, an object column holding a str
              \* or an array: ValueError / TypeError
              [col |-> col, failed |-> TRUE]
         ELSE LET int_version == [r \in 1..Len(col) |-> Int32(col[r], b)]
              IN IF \A r \in 1..Len(col) : AllClose(int_version[r], col[r])
                 THEN [col |-> int_version, failed |-> FALSE]
                 ELSE [col |-> col, failed |-> FALSE]
    ELSE [col |-> col, failed |-> FALSE]

\* Mutant: 'label' not in field, without lower()
ReportedCaseSensitive(name) == ~Contains(name, LabelWord)

\* 'label' not in field.lower()
Reported(name) == ~Contains(Lower(name), LabelWord)

\* the members of a sequence that satisfy a test, in order
RECURSIVE Keep(_, _)
Keep(s, ok) ==
    IF s = <<>> THEN <<>>
    ELSE (IF ok[1] THEN <<Head(s)>> ELSE <<>>)
         \o Keep(Tail(s), [k \in 1..(Len(ok) - 1) |-> ok[k + 1]])

CleanIntegerBody(t, b) ==
    LET res == [j \in 1..Len(t.col) |-> CleanIntegerField(t.col[j], b)]
        bad_fields == Keep(t.names, [j \in 1..Len(t.col) |->
                                        res[j].failed /\ Reported(t.names[j])])
    IN [tab |-> [t EXCEPT !.col = [j \in 1..Len(t.col) |-> res[j].col]],
        raised |-> FALSE,
        out |-> IF bad_fields # <<>> THEN <<bad_fields>> ELSE <<>>]

\* @utils.copy_td
clean_integer_fields(st, a, b) ==
    LET df == copy_td(st, a)
        r == CleanIntegerBody(df[CopySlot(a)], b)
    IN Outcome(df, CopySlot(a), r, r.out)

----------------------------------------------------------------------------
(* The caller: a loader hands over a table; the caller passes the table it   *)
(* holds to a transform and keeps what the transform returns.                *)

Init ==
    /\ orig \in Tables
    /\ store = [s \in {0, 1} |-> orig]
    /\ cur = 0
    /\ last = "load"
    /\ raised = FALSE
    /\ printed = <<>>
    /\ build \in Builds
    /\ shifts = 0

Call(name, res) ==
    /\ store' = res.store
    /\ cur' = IF res.raised THEN cur ELSE res.ret
    /\ last' = name
    /\ raised' = res.raised
    /\ printed' = res.out
    /\ UNCHANGED <<orig, build>>

Backshift ==
    /\ shifts < MaxShifts
    /\ shifts' = shifts + 1
    /\ Call("backshift_idx_fields", backshift_idx_fields(store, cur))

Clean0dArray ==
    /\ Call("clean_0d_array_fields", clean_0d_array_fields(store, cur))
    /\ UNCHANGED shifts

Clean0dSpike ==
    /\ Call("clean_0d_spike_fields", clean_0d_spike_fields(store, cur))
    /\ UNCHANGED shifts

CleanInteger ==
    /\ Call("clean_integer_fields", clean_integer_fields(store, cur, build))
    /\ UNCHANGED shifts

Next == Backshift \/ Clean0dArray \/ Clean0dSpike \/ CleanInteger

Spec == Init /\ [][Next]_vars

----------------------------------------------------------------------------
(* Properties *)

\* The last call returned (it did not raise).
Returned(name) == last = name /\ ~raised

\* The table object the last call was given, and the one it returned.
Arg == store[CopySlot(cur)]
Ret == store[cur]

Cols(t) == 1..Len(t.names)
Rows(t) == 1..t.n

IsNumber(c) == c.k = "scalar" /\ c.dt \in {"int", "float", "int32"}
IsIntArray(c) == c.k = "ndarray" /\ c.dt \in {"uint8", "int32"}
IsInteger(c) == c.k = "scalar" /\ c.dt \in {"int", "int32"}
Listed(name) == \E l \in 1..Len(printed) : \E k \in 1..Len(printed[l]) : printed[l][k] = name
NamesLabel(name) == Contains(Lower(name), LabelWord)

\* C1: the table object a transform is called with holds the same columns, cells
\* and dtypes after the call as before it, whatever the transform did.
C1_NonMutation == [][store'[cur] = store[cur]]_vars

\* C1 witness: clean_0d_array_fields returned a table that differs from its
\* argument, and a 2-d cell it passed through is in both.
C1_Witness ==
    /\ Returned("clean_0d_array_fields")
    /\ Ret # Arg
    /\ \E j \in Cols(Arg) : \E r \in Rows(Arg) :
          /\ IsArray(Arg.col[j][r]) /\ Ndim(Arg.col[j][r]) = 2
          /\ Ret.col[j][r] = Arg.col[j][r]
          /\ \E q \in Rows(Arg) : Ret.col[j][q] # Arg.col[j][q]

IntegerIdx(t) ==
    \A j \in Cols(t) : StartsWith(t.names[j], IdxPrefix) =>
        \A r \in Rows(t) : IsInteger(t.col[j][r]) \/ IsIntArray(t.col[j][r])

\* cell y is cell x with every integer decremented; wrap says what the dtype
\* minimum of a fixed-width array becomes
Decremented(x, y, wrap) ==
    /\ y.k = x.k
    /\ y.shape = x.shape
    /\ Len(y.data) = Len(x.data)
    /\ \A k \in 1..Len(x.data) :
          /\ y.data[k].o = 0 /\ y.data[k].h = 0
          /\ y.data[k].i = IF wrap /\ IsArray(x) /\ x.data[k].i = DtMin(x.dt)
                            THEN DtMax(x.dt)
                            ELSE x.data[k].i - 1

Rebased(wrap) ==
    (Returned("backshift_idx_fields") /\ IntegerIdx(Arg)) =>
        \A j \in Cols(Arg) :
            IF StartsWith(Arg.names[j], IdxPrefix)
            THEN \A r \in Rows(Arg) : Decremented(Arg.col[j][r], Ret.col[j][r], wrap)
            ELSE Ret.col[j] = Arg.col[j]

\* C3 as stated: backshift_idx_fields decrements every integer of every idx column
\* by exactly one and leaves every other column equal to the input.
C3_ExactDecrement == Rebased(FALSE)

\* C3 amended: as C3, but an element of an integer array that equals the minimum
\* of the array's dtype becomes the dtype's maximum (uint8 0 becomes 255).
C3_WrappingDecrement == Rebased(TRUE)

\* C3 witness: an idx column with a uint8 array holding 0 was rebased, next to a
\* column that is no idx column.
C3_Witness ==
    /\ Returned("backshift_idx_fields")
    /\ IntegerIdx(Arg)
    /\ \E j \in Cols(Arg) : \E r \in Rows(Arg) :
          /\ StartsWith(Arg.names[j], IdxPrefix)
          /\ Arg.col[j][r] = AUz
          /\ Ret.col[j][r].data[1].i = 255
    /\ \E j \in Cols(Arg) : ~StartsWith(Arg.names[j], IdxPrefix)

FractionalField(t, j) ==
    /\ t.n > 0
    /\ \A r \in Rows(t) : IsNumber(t.col[j][r])
    /\ ~NamesLabel(t.names[j])
    /\ \E r \in Rows(t) : t.col[j][r].data[1].h = 1

\* C6 as stated: a numeric column without "label" in its name that holds a value
\* that is no whole number is left as it is, and the one diagnostic line of the
\* call names it.
C6_FractionalReported ==
    Returned("clean_integer_fields") =>
        \A j \in Cols(Arg) : FractionalField(Arg, j) =>
            /\ Ret.col[j] = Arg.col[j]
            /\ Len(printed) = 1
            /\ Listed(Arg.names[j])

\* C6 amended: such a column is never named in the diagnostic line (only a column
\* whose conversion raises is), and it is left as it is when one of its values
\* is farther from its truncation than the closeness tolerance allows (a
\* fraction of one half on a magnitude below 50000).
C6_FractionalSilent ==
    Returned("clean_integer_fields") =>
        \A j \in Cols(Arg) : FractionalField(Arg, j) =>
            /\ ~Listed(Arg.names[j])
            /\ (\E r \in Rows(Arg) : LET e == Arg.col[j][r].data[1]
                                      IN e.h = 1 /\ e.o = 0 /\ e.i < 50000 /\ e.i > -50001)
                 => Ret.col[j] = Arg.col[j]

\* C6 witness: a call that printed a line and left a column holding 2.5 as it
\* was, without naming it.
C6_Witness ==
    /\ Returned("clean_integer_fields")
    /\ printed # <<>>
    /\ \E j \in Cols(Arg) :
          /\ FractionalField(Arg, j)
          /\ \E r \in Rows(Arg) : Arg.col[j][r] = F2h
          /\ Ret.col[j] = Arg.col[j]
          /\ ~Listed(Arg.names[j])

\* C7 as stated: clean_integer_fields leaves every column whose name contains
\* "label" (in any case) unchanged.
C7_LabelUnchanged ==
    Returned("clean_integer_fields") =>
        \A j \in Cols(Arg) : NamesLabel(Arg.names[j]) => Ret.col[j] = Arg.col[j]

\* C7 amended: a column whose name contains "label" (in any case) is never named
\* in the diagnostic line; it is converted like any other column: a float column
\* of whole numbers becomes the int32 column of the same numbers.
C7_LabelUnlisted ==
    Returned("clean_integer_fields") =>
        \A j \in Cols(Arg) : NamesLabel(Arg.names[j]) =>
            /\ ~Listed(Arg.names[j])
            /\ (/\ Arg.n > 0
                /\ \A r \in Rows(Arg) :
                      /\ Arg.col[j][r].k = "scalar" /\ Arg.col[j][r].dt = "float"
                      /\ Arg.col[j][r].data[1].h = 0 /\ Arg.col[j][r].data[1].o = 0)
                 => \A r \in Rows(Arg) :
                      /\ Ret.col[j][r].dt = "int32"
                      /\ Ret.col[j][r].data = Arg.col[j][r].data

\* C7 witness: a label column that could not be converted (an array of strings)
\* next to a column the diagnostic line names.
C7_Witness ==
    /\ Returned("clean_integer_fields")
    /\ printed # <<>>
    /\ \E j \in Cols(Arg) :
          /\ NamesLabel(Arg.names[j])
          /\ \E r \in Rows(Arg) : Arg.col[j][r] = AS
          /\ ~Listed(Arg.names[j])

NotWholeInt32(t, j) ==
    /\ t.n > 0
    /\ \/ \A r \in Rows(t) : IsNumber(t.col[j][r])
       \/ \A r \in Rows(t) : IsArray(t.col[j][r]) /\ t.col[j][r].dt # "str"
    /\ \E r \in Rows(t) : \E k \in 1..Len(t.col[j][r].data) :
          t.col[j][r].data[k].h = 1 \/ t.col[j][r].data[k].o = 1

\* C9: clean_integer_fields changes no cell of a numeric column that holds a
\* value with a fractional part (k + 0.5 for any k) or outside the int32 range.
C9_WholeNumbersOnly ==
    Returned("clean_integer_fields") =>
        \A j \in Cols(Arg) : NotWholeInt32(Arg, j) => Ret.col[j] = Arg.col[j]

\* C10: a call prints at most one line and only clean_integer_fields prints; a
\* column whose first value is a string is unchanged and not named, a label
\* column is not named, and nothing is printed for a table of zero rows.
C10_Diagnostics ==
    /\ Len(printed) <= 1
    /\ last # "clean_integer_fields" => printed = <<>>
    /\ Returned("clean_integer_fields") =>
          /\ \A j \in Cols(Arg) :
                /\ (Arg.n > 0 /\ IsStr(Arg.col[j][1])) =>
                      (Ret.col[j] = Arg.col[j] /\ ~Listed(Arg.names[j]))
                /\ NamesLabel(Arg.names[j]) => ~Listed(Arg.names[j])
          /\ Arg.n = 0 => printed = <<>>

====
